---- MODULE Spec2Model ----
(***************************************************************************)
(* Model of the philBackground spiral circuit:                             *)
(*   - the seed -> configuration derivation (calculate_configuration_      *)
(*     mapping and the callers' seed % 41, seed / 41),                     *)
(*   - the off-circuit layout generation (calculate_spiral_point,          *)
(*     generate_spiral_particles, generate_spiral_triangles,               *)
(*     create_micro_triangle),                                             *)
(*   - SimpleSpiralsCircuit: its gates (configure), its witness assignment *)
(*     (synthesize) and the verdict of the mock prover on the assignment,  *)
(*   - the service's layout generation (generate_spiral_data,              *)
(*     calculate_optimized_spiral_point, generate_optimized_triangles).    *)
(*                                                                         *)
(* Field elements: every value that enters a gate in this model is an      *)
(* integer whose magnitude is far below the Pallas base-field modulus      *)
(* (about 2^254), and so is every gate polynomial evaluated on them.  On   *)
(* such values equality in the field is equality of integers, which is how *)
(* the gates are evaluated here.  A negative integer -a stands for p - a.  *)
(***************************************************************************)
EXTENDS Integers, Sequences, FiniteSets, TLC

(***************************************************************************)
(* Bounds of the model.                                                    *)
(***************************************************************************)
MaxSeed == 41
MaxCanvas == 5
MaxDelta == 1

MaxDirectArms == 3

MaxParticleIndex == 100

(***************************************************************************)
(* Constants of the program.                                               *)
(***************************************************************************)
FORTY_ONE == 41
THREE == 3
SIX == 6
SIXTY_NINE == 69
ROW_LIMIT == 50
TRIG_TABLE_SIZE == 32
SCALE_FACTOR == 10000
DEFAULT_CANVAS == 420
TEST_PER_ARM == 23
TEST_TAKE == 30

SIN_TABLE ==
    << 0, 1951, 3827, 5556, 7071, 8315, 9239, 9808,
       10000, 9808, 9239, 8315, 7071, 5556, 3827, 1951,
       0, -1951, -3827, -5556, -7071, -8315, -9239, -9808,
       -10000, -9808, -9239, -8315, -7071, -5556, -3827, -1951 >>

COS_TABLE ==
    << 10000, 9808, 9239, 8315, 7071, 5556, 3827, 1951,
       0, -1951, -3827, -5556, -7071, -8315, -9239, -9808,
       -10000, -9808, -9239, -8315, -7071, -5556, -3827, -1951,
       0, 1951, 3827, 5556, 7071, 8315, 9239, 9808 >>

(***************************************************************************)
(* Integer helpers of the Rust standard library.                           *)
(***************************************************************************)
abs(v) == IF v < 0 THEN -v ELSE v

max(a, b) == IF a >= b THEN a ELSE b

min(a, b) == IF a <= b THEN a ELSE b

(* The subtraction without saturation: below zero where the unsigned      *)
(* difference would wrap around.                                           *)
saturating_sub_plain(a, b) == a - b

saturating_sub(a, b) == IF a >= b THEN a - b ELSE 0

(***************************************************************************)
(* calculate_configuration_mapping(variant_id)                             *)
(*   -> <<spiral_type, num_arms, spiral_quotient, arms_quotient,           *)
(*        arms_remainder>>                                                 *)
(***************************************************************************)
(* The mapping without the three arms every spiral starts from.            *)
calculate_configuration_mapping_no_base(variant_id) ==
    LET spiral_type == variant_id % 3
        spiral_quotient == variant_id \div 3
        arms_remainder == spiral_quotient % 6
        arms_quotient == spiral_quotient \div 6
        num_arms == arms_remainder
    IN  << spiral_type, num_arms, spiral_quotient, arms_quotient, arms_remainder >>

(* The mapping with the arm remainder taken modulo 7 instead of 6.         *)
calculate_configuration_mapping_mod7(variant_id) ==
    LET spiral_type == variant_id % 3
        spiral_quotient == variant_id \div 3
        arms_remainder == spiral_quotient % 7
        arms_quotient == spiral_quotient \div 6
        num_arms == 3 + arms_remainder
    IN  << spiral_type, num_arms, spiral_quotient, arms_quotient, arms_remainder >>

calculate_configuration_mapping(variant_id) ==
    LET spiral_type == variant_id % 3
        spiral_quotient == variant_id \div 3
        arms_remainder == spiral_quotient % 6
        arms_quotient == spiral_quotient \div 6
        num_arms == 3 + arms_remainder
    IN  << spiral_type, num_arms, spiral_quotient, arms_quotient, arms_remainder >>

(***************************************************************************)
(* The angle progression of calculate_spiral_point: how far the angle has  *)
(* advanced at the per-mille progress t along the arm.                     *)
(***************************************************************************)
(* The progression with the multipliers of the loose and the classic       *)
(* spiral exchanged.                                                       *)
spiral_progression_exchanged(spiral_type, t) ==
    CASE spiral_type = 0 -> (t * 16) \div 1000
      [] spiral_type = 1 -> (t * 8) \div 1000
      [] OTHER -> (t * 4) \div 1000

spiral_progression(spiral_type, t) ==
    CASE spiral_type = 0 -> (t * 16) \div 1000
      [] spiral_type = 1 -> (t * 4) \div 1000
      [] OTHER -> (t * 8) \div 1000

(***************************************************************************)
(* calculate_spiral_point -> <<x, y, angle_index>>                         *)
(***************************************************************************)
(* The spiral point with the service's galaxy spread of 40 percent.        *)
calculate_spiral_point_narrow(arm_index, particle_index, total_arms, spiral_type, canvas_size) ==
    LET particles_per_arm == 69
        max_radius == (canvas_size * 40) \div 100
        base_angle_index == (arm_index * TRIG_TABLE_SIZE) \div total_arms
        t == (particle_index * 1000) \div particles_per_arm
        progression == CASE spiral_type = 0 -> (t * 16) \div 1000
                         [] spiral_type = 1 -> (t * 4) \div 1000
                         [] OTHER -> (t * 8) \div 1000
        angle_index == (base_angle_index + progression) % TRIG_TABLE_SIZE
        radius == (t * max_radius) \div 1000
        sin_val == SIN_TABLE[angle_index + 1]
        cos_val == COS_TABLE[angle_index + 1]
        center == canvas_size \div 2
        x == center + (radius * abs(cos_val)) \div SCALE_FACTOR
        y == center + (radius * abs(sin_val)) \div SCALE_FACTOR
    IN  << x, y, angle_index >>

(* The spiral point with the radius fraction taken out of 1000 instead of  *)
(* 10000.                                                                  *)
calculate_spiral_point_wide(arm_index, particle_index, total_arms, spiral_type, canvas_size) ==
    LET particles_per_arm == 69
        max_radius == (canvas_size * 4963) \div 1000
        base_angle_index == (arm_index * TRIG_TABLE_SIZE) \div total_arms
        t == (particle_index * 1000) \div particles_per_arm
        progression == CASE spiral_type = 0 -> (t * 16) \div 1000
                         [] spiral_type = 1 -> (t * 4) \div 1000
                         [] OTHER -> (t * 8) \div 1000
        angle_index == (base_angle_index + progression) % TRIG_TABLE_SIZE
        radius == (t * max_radius) \div 1000
        sin_val == SIN_TABLE[angle_index + 1]
        cos_val == COS_TABLE[angle_index + 1]
        center == canvas_size \div 2
        x == center + ((radius * abs(cos_val)) \div SCALE_FACTOR)
        y == center + ((radius * abs(sin_val)) \div SCALE_FACTOR)
    IN  << x, y, angle_index >>

(* The spiral point with the angle index taken modulo half the table.      *)
calculate_spiral_point_half_table(arm_index, particle_index, total_arms, spiral_type, canvas_size) ==
    LET particles_per_arm == 69
        max_radius == (canvas_size * 4963) \div 10000
        base_angle_index == (arm_index * TRIG_TABLE_SIZE) \div total_arms
        t == (particle_index * 1000) \div particles_per_arm
        progression == spiral_progression(spiral_type, t)
        angle_index == (base_angle_index + progression) % (TRIG_TABLE_SIZE \div 2)
        radius == (t * max_radius) \div 1000
        sin_val == SIN_TABLE[angle_index + 1]
        cos_val == COS_TABLE[angle_index + 1]
        center == canvas_size \div 2
        x == center + ((radius * abs(cos_val)) \div SCALE_FACTOR)
        y == center + ((radius * abs(sin_val)) \div SCALE_FACTOR)
    IN  << x, y, angle_index >>

calculate_spiral_point(arm_index, particle_index, total_arms, spiral_type, canvas_size) ==
    LET particles_per_arm == 69
        max_radius == (canvas_size * 4963) \div 10000
        base_angle_index == (arm_index * TRIG_TABLE_SIZE) \div total_arms
        t == (particle_index * 1000) \div particles_per_arm
        progression == spiral_progression(spiral_type, t)
        angle_index == (base_angle_index + progression) % TRIG_TABLE_SIZE
        radius == (t * max_radius) \div 1000
        sin_val == SIN_TABLE[angle_index + 1]
        cos_val == COS_TABLE[angle_index + 1]
        center == canvas_size \div 2
        x == center + ((radius * abs(cos_val)) \div SCALE_FACTOR)
        y == center + ((radius * abs(sin_val)) \div SCALE_FACTOR)
    IN  << x, y, angle_index >>

(***************************************************************************)
(* generate_spiral_particles: the two nested loops, pushing one position   *)
(* and one metadata entry per (arm_index, particle_index).  A loop over    *)
(* the iterations lo .. hi-1 is written by halving: what the iterations    *)
(* lo .. mid-1 push, followed by what the iterations mid .. hi-1 push.     *)
(* calls collects the total_arms argument of every call of                 *)
(* calculate_spiral_point.  A call with total_arms = 0 panics at the       *)
(* division by total_arms and pushes nothing.                              *)
(***************************************************************************)
no_particles == [ positions |-> << >>, metadata |-> << >>, calls |-> {} ]

(* The inner loop handing the arm index over as total_arms.                *)
RECURSIVE particles_inner_loop_swapped(_, _, _, _, _, _)
particles_inner_loop_swapped(arm_index, lo, hi, num_arms, spiral_type, canvas_size) ==
    IF lo >= hi
    THEN no_particles
    ELSE IF hi = lo + 1
    THEN LET particle_index == lo
             total_arms == arm_index
         IN  IF total_arms = 0
             THEN [ no_particles EXCEPT !.calls = { total_arms } ]
             ELSE LET pt == calculate_spiral_point(arm_index, particle_index,
                                                   total_arms, spiral_type,
                                                   canvas_size)
                  IN  [ positions |-> << << pt[1], pt[2] >> >>,
                        metadata  |-> << << arm_index, particle_index, pt[3] >> >>,
                        calls     |-> { total_arms } ]
    ELSE LET mid == (lo + hi) \div 2
             first == particles_inner_loop_swapped(arm_index, lo, mid, num_arms,
                                                   spiral_type, canvas_size)
             rest == particles_inner_loop_swapped(arm_index, mid, hi, num_arms,
                                                  spiral_type, canvas_size)
         IN  [ positions |-> first.positions \o rest.positions,
               metadata  |-> first.metadata \o rest.metadata,
               calls     |-> first.calls \cup rest.calls ]

RECURSIVE particles_inner_loop(_, _, _, _, _, _)
particles_inner_loop(arm_index, lo, hi, num_arms, spiral_type, canvas_size) ==
    IF lo >= hi
    THEN no_particles
    ELSE IF hi = lo + 1
    THEN LET particle_index == lo
             total_arms == num_arms
         IN  IF total_arms = 0
             THEN [ no_particles EXCEPT !.calls = { total_arms } ]
             ELSE LET pt == calculate_spiral_point(arm_index, particle_index,
                                                   total_arms, spiral_type,
                                                   canvas_size)
                  IN  [ positions |-> << << pt[1], pt[2] >> >>,
                        metadata  |-> << << arm_index, particle_index, pt[3] >> >>,
                        calls     |-> { total_arms } ]
    ELSE LET mid == (lo + hi) \div 2
             first == particles_inner_loop(arm_index, lo, mid, num_arms,
                                           spiral_type, canvas_size)
             rest == particles_inner_loop(arm_index, mid, hi, num_arms,
                                          spiral_type, canvas_size)
         IN  [ positions |-> first.positions \o rest.positions,
               metadata  |-> first.metadata \o rest.metadata,
               calls     |-> first.calls \cup rest.calls ]

(* The arm loop with the later arms put before the earlier ones.           *)
RECURSIVE particles_outer_loop_reversed(_, _, _, _, _)
particles_outer_loop_reversed(lo, hi, num_arms, spiral_type, canvas_size) ==
    IF lo >= hi
    THEN no_particles
    ELSE IF hi = lo + 1
    THEN LET arm_index == lo
             particles_per_arm == 69
         IN  particles_inner_loop(arm_index, 0, particles_per_arm, num_arms,
                                  spiral_type, canvas_size)
    ELSE LET mid == (lo + hi) \div 2
             first == particles_outer_loop_reversed(lo, mid, num_arms,
                                                    spiral_type, canvas_size)
             rest == particles_outer_loop_reversed(mid, hi, num_arms,
                                                   spiral_type, canvas_size)
         IN  [ positions |-> rest.positions \o first.positions,
               metadata  |-> rest.metadata \o first.metadata,
               calls     |-> first.calls \cup rest.calls ]

RECURSIVE particles_outer_loop(_, _, _, _, _)
particles_outer_loop(lo, hi, num_arms, spiral_type, canvas_size) ==
    IF lo >= hi
    THEN no_particles
    ELSE IF hi = lo + 1
    THEN LET arm_index == lo
             particles_per_arm == 69
         IN  particles_inner_loop(arm_index, 0, particles_per_arm, num_arms,
                                  spiral_type, canvas_size)
    ELSE LET mid == (lo + hi) \div 2
             first == particles_outer_loop(lo, mid, num_arms, spiral_type,
                                           canvas_size)
             rest == particles_outer_loop(mid, hi, num_arms, spiral_type,
                                          canvas_size)
         IN  [ positions |-> first.positions \o rest.positions,
               metadata  |-> first.metadata \o rest.metadata,
               calls     |-> first.calls \cup rest.calls ]

(* The generation with the arm loop stopping one arm early.                *)
generate_spiral_particles_short(spiral_type, num_arms, canvas_size) ==
    particles_outer_loop(0, num_arms - 1, num_arms, spiral_type, canvas_size)

generate_spiral_particles(spiral_type, num_arms, canvas_size) ==
    particles_outer_loop(0, num_arms, num_arms, spiral_type, canvas_size)

(***************************************************************************)
(* create_micro_triangle -> <<x1, y1, x2, y2, x3, y3>>                     *)
(***************************************************************************)
(* The micro-triangle reaching twice the size to each side.                *)
create_micro_triangle_doubled(center_x, center_y, size) ==
    LET half_size == size * 2
        x1 == center_x
        y1 == saturating_sub(center_y, half_size)
        x2 == saturating_sub(center_x, half_size)
        y2 == center_y + half_size
        x3 == center_x + half_size
        y3 == center_y + half_size
    IN  << x1, y1, x2, y2, x3, y3 >>

(* The micro-triangle with its top point moved left by half the size.     *)
create_micro_triangle_shifted(center_x, center_y, size) ==
    LET half_size == size \div 2
        x1 == saturating_sub(center_x, half_size)
        y1 == saturating_sub(center_y, half_size)
        x2 == saturating_sub(center_x, half_size)
        y2 == center_y + half_size
        x3 == center_x + half_size
        y3 == center_y + half_size
    IN  << x1, y1, x2, y2, x3, y3 >>

create_micro_triangle(center_x, center_y, size) ==
    LET half_size == size \div 2
        x1 == center_x
        y1 == saturating_sub(center_y, half_size)
        x2 == saturating_sub(center_x, half_size)
        y2 == center_y + half_size
        x3 == center_x + half_size
        y3 == center_y + half_size
    IN  << x1, y1, x2, y2, x3, y3 >>

(***************************************************************************)
(* generate_spiral_triangles: regenerates the particles, then one          *)
(* micro-triangle per (arm_index, particle_index) whose particle exists.   *)
(***************************************************************************)
no_triangles == [ triangle_vertices |-> << >>, triangle_metadata |-> << >> ]

RECURSIVE triangles_inner_loop(_, _, _, _)
triangles_inner_loop(arm_index, lo, hi, generated_positions) ==
    IF lo >= hi
    THEN no_triangles
    ELSE IF hi = lo + 1
    THEN LET particle_index == lo
             particles_per_arm == 69
             particle_idx == arm_index * particles_per_arm + particle_index
         IN  IF particle_idx < Len(generated_positions)
             THEN LET center == generated_positions[particle_idx + 1]
                      base_size == 6
                      size_reduction == (particle_index * 4) \div particles_per_arm
                      triangle_size == max(base_size - size_reduction, 2)
                  IN  [ triangle_vertices |->
                            << create_micro_triangle(center[1], center[2],
                                                     triangle_size) >>,
                        triangle_metadata |->
                            << << arm_index, particle_index, 0 >> >> ]
             ELSE no_triangles
    ELSE LET mid == (lo + hi) \div 2
             first == triangles_inner_loop(arm_index, lo, mid, generated_positions)
             rest == triangles_inner_loop(arm_index, mid, hi, generated_positions)
         IN  [ triangle_vertices |-> first.triangle_vertices \o rest.triangle_vertices,
               triangle_metadata |-> first.triangle_metadata \o rest.triangle_metadata ]

RECURSIVE triangles_outer_loop(_, _, _)
triangles_outer_loop(lo, hi, generated_positions) ==
    IF lo >= hi
    THEN no_triangles
    ELSE IF hi = lo + 1
    THEN LET arm_index == lo
             particles_per_arm == 69
         IN  triangles_inner_loop(arm_index, 0, particles_per_arm,
                                  generated_positions)
    ELSE LET mid == (lo + hi) \div 2
             first == triangles_outer_loop(lo, mid, generated_positions)
             rest == triangles_outer_loop(mid, hi, generated_positions)
         IN  [ triangle_vertices |-> first.triangle_vertices \o rest.triangle_vertices,
               triangle_metadata |-> first.triangle_metadata \o rest.triangle_metadata ]

generate_spiral_triangles(spiral_type, num_arms, canvas_size) ==
    triangles_outer_loop(0, num_arms,
        generate_spiral_particles(spiral_type, num_arms, canvas_size).positions)

(***************************************************************************)
(* The service (main.rs).                                                  *)
(***************************************************************************)
(* Division of signed 64-bit integers, which truncates toward zero.        *)
signed_div(a, b) == IF a >= 0 THEN a \div b ELSE -((-a) \div b)

scale_to_uint8(coord, canvas) == min((coord * 255) \div canvas, 255)

(* The angle progression of calculate_optimized_spiral_point.              *)
optimized_progression(spiral_type, t) ==
    CASE spiral_type = 0 -> (t * 22) \div 1000
      [] spiral_type = 1 -> (t * 4) \div 1000
      [] OTHER -> (t * 12) \div 1000

(***************************************************************************)
(* calculate_optimized_spiral_point -> <<x, y, angle_index>>, for          *)
(* total_arms > 0.  The offsets from the centre are signed; a coordinate   *)
(* below zero is raised to zero before the conversion to unsigned.         *)
(***************************************************************************)
calculate_optimized_spiral_point(arm_index, particle_index, total_arms, spiral_type, canvas) ==
    LET particles_per_arm == 23
        max_radius == (canvas * 40) \div 100
        base_angle_index == (arm_index * 32) \div total_arms
        t == (particle_index * 1000) \div particles_per_arm
        progression == optimized_progression(spiral_type, t)
        angle_index == (base_angle_index + progression) % 32
        radius == (t * max_radius) \div 1000
        sin_val == SIN_TABLE[angle_index + 1]
        cos_val == COS_TABLE[angle_index + 1]
        center == canvas \div 2
        x == max(center + signed_div(radius * cos_val, 10000), 0)
        y == max(center + signed_div(radius * sin_val, 10000), 0)
    IN  << x, y, angle_index >>

(***************************************************************************)
(* generate_optimized_triangles: one TriangleData per position, with       *)
(* vertices <<x1, y1, x2, y2, x3, y3>> and the same six coordinates packed *)
(* into bytes.                                                             *)
(***************************************************************************)
optimized_triangle(arm_index, particle_index, center, canvas) ==
    LET particles_per_arm == 23
        base_size == 6
        size_reduction == (particle_index * 3) \div particles_per_arm
        triangle_size == max(base_size - size_reduction, 2)
        half_size == triangle_size \div 2
        vertices == << center[1], saturating_sub(center[2], half_size),
                       saturating_sub(center[1], half_size), center[2] + half_size,
                       center[1] + half_size, center[2] + half_size >>
    IN  [ vertices        |-> vertices,
          arm_index       |-> arm_index,
          triangle_index  |-> particle_index,
          triangle_type   |-> 0,
          size            |-> triangle_size,
          packed_vertices |-> [j \in 1 .. 6 |-> scale_to_uint8(vertices[j], canvas)] ]

RECURSIVE optimized_triangles_inner_loop(_, _, _, _, _)
optimized_triangles_inner_loop(arm_index, lo, hi, given_positions, canvas) ==
    IF lo >= hi
    THEN << >>
    ELSE IF hi = lo + 1
    THEN LET particle_index == lo
             particles_per_arm == 23
             base_particle_idx == arm_index * particles_per_arm + particle_index
         IN  IF base_particle_idx < Len(given_positions)
             THEN << optimized_triangle(arm_index, particle_index,
                                        given_positions[base_particle_idx + 1],
                                        canvas) >>
             ELSE << >>
    ELSE LET mid == (lo + hi) \div 2
         IN  optimized_triangles_inner_loop(arm_index, lo, mid, given_positions, canvas)
             \o optimized_triangles_inner_loop(arm_index, mid, hi, given_positions, canvas)

RECURSIVE optimized_triangles_outer_loop(_, _, _, _)
optimized_triangles_outer_loop(lo, hi, given_positions, canvas) ==
    IF lo >= hi
    THEN << >>
    ELSE IF hi = lo + 1
    THEN LET arm_index == lo
             particles_per_arm == 23
         IN  optimized_triangles_inner_loop(arm_index, 0, particles_per_arm,
                                            given_positions, canvas)
    ELSE LET mid == (lo + hi) \div 2
         IN  optimized_triangles_outer_loop(lo, mid, given_positions, canvas)
             \o optimized_triangles_outer_loop(mid, hi, given_positions, canvas)

generate_optimized_triangles(given_positions, num_arms, canvas) ==
    optimized_triangles_outer_loop(0, num_arms, given_positions, canvas)

(***************************************************************************)
(* generate_spiral_data: the particle loops, then the triangles and the    *)
(* response, together with the total_arms argument of every call of        *)
(* calculate_optimized_spiral_point.  The response's background fields     *)
(* come from generate_background_type, which the circuit module does not   *)
(* define; they are left out.                                              *)
(***************************************************************************)
RECURSIVE spiral_data_inner_loop(_, _, _, _, _, _)
spiral_data_inner_loop(arm_index, lo, hi, num_arms, spiral_type, canvas) ==
    IF lo >= hi
    THEN no_particles
    ELSE IF hi = lo + 1
    THEN LET particle_index == lo
             total_arms == num_arms
         IN  IF total_arms = 0
             THEN [ no_particles EXCEPT !.calls = { total_arms } ]
             ELSE LET pt == calculate_optimized_spiral_point(
                                arm_index, particle_index, total_arms,
                                spiral_type, canvas)
                  IN  [ positions |-> << << pt[1], pt[2] >> >>,
                        metadata  |-> << << arm_index, particle_index, pt[3] >> >>,
                        calls     |-> { total_arms } ]
    ELSE LET mid == (lo + hi) \div 2
             first == spiral_data_inner_loop(arm_index, lo, mid, num_arms,
                                             spiral_type, canvas)
             rest == spiral_data_inner_loop(arm_index, mid, hi, num_arms,
                                            spiral_type, canvas)
         IN  [ positions |-> first.positions \o rest.positions,
               metadata  |-> first.metadata \o rest.metadata,
               calls     |-> first.calls \cup rest.calls ]

RECURSIVE spiral_data_outer_loop(_, _, _, _, _)
spiral_data_outer_loop(lo, hi, num_arms, spiral_type, canvas) ==
    IF lo >= hi
    THEN no_particles
    ELSE IF hi = lo + 1
    THEN LET arm_index == lo
             particles_per_arm == 23
         IN  spiral_data_inner_loop(arm_index, 0, particles_per_arm, num_arms,
                                    spiral_type, canvas)
    ELSE LET mid == (lo + hi) \div 2
             first == spiral_data_outer_loop(lo, mid, num_arms, spiral_type, canvas)
             rest == spiral_data_outer_loop(mid, hi, num_arms, spiral_type, canvas)
         IN  [ positions |-> first.positions \o rest.positions,
               metadata  |-> first.metadata \o rest.metadata,
               calls     |-> first.calls \cup rest.calls ]

effective_canvas_size(requested) == IF requested > 0 THEN requested ELSE 420

no_response ==
    [ seed |-> 0, variant |-> 0, spiral_type |-> 0, num_arms |-> 0,
      particles |-> << >>, triangles |-> << >>,
      config |-> << 0, 0, 0, 0, 0 >>,
      galaxy_stats |-> [ particles_per_arm |-> 0, total_particles |-> 0,
                         micro_triangles |-> 0 ] ]

(* No spiral point computed yet.                                           *)
no_point == [ library |-> << >>, service |-> << >> ]

generate_spiral_data(requested_seed, requested_canvas) ==
    LET canvas == effective_canvas_size(requested_canvas)
        variant == requested_seed % 41
        mapping == calculate_configuration_mapping(variant)
        spiral_type == mapping[1]
        num_arms == mapping[2]
        particles_per_arm == 23
        generated == spiral_data_outer_loop(0, num_arms, num_arms, spiral_type, canvas)
        triangles == generate_optimized_triangles(generated.positions, num_arms, canvas)
        particles == [k \in 1 .. Len(generated.positions) |->
                         << generated.positions[k][1], generated.positions[k][2],
                            generated.metadata[k][1], generated.metadata[k][2] >>]
    IN  [ response |->
              [ seed |-> requested_seed,
                variant |-> variant,
                spiral_type |-> spiral_type,
                num_arms |-> num_arms,
                particles |-> particles,
                triangles |-> triangles,
                config |-> mapping,
                galaxy_stats |-> [ particles_per_arm |-> particles_per_arm,
                                   total_particles |-> num_arms * particles_per_arm,
                                   micro_triangles |-> Len(triangles) ] ],
          calls |-> generated.calls ]

(***************************************************************************)
(* State.                                                                  *)
(*   pc                  position of the run: "start", "derived",          *)
(*                       "particles", "triangles", "built", "synthesized", *)
(*                       "verified", "called", "served", "point"           *)
(*   seed, canvas_size   the inputs of the run                             *)
(*   variant_id, quotient, config                                          *)
(*                       the derived configuration (config is the 5-tuple  *)
(*                       of calculate_configuration_mapping)               *)
(*   positions, metadata, triangle_vertices, triangle_metadata             *)
(*                       the generated layout                              *)
(*   circuit             the SimpleSpiralsCircuit value handed to the      *)
(*                       prover; layout, per_arm and corrupted record how  *)
(*                       it was built                                      *)
(*   regions             the regions assigned by synthesize                *)
(*   result              the prover's verdict: "none", "Ok" or "Err"       *)
(*   forged              whether the prover replaced cells of the          *)
(*                       assignment after synthesize                       *)
(*   point_calls         the total_arms argument of every call of a        *)
(*                       spiral-point function made so far                 *)
(*   args                the arguments of a direct call:                   *)
(*                       <<spiral_type, num_arms>> of                      *)
(*                       generate_spiral_particles, <<arm_index,           *)
(*                       particle_index, total_arms, spiral_type>> of the  *)
(*                       spiral-point functions                            *)
(*   point               what the two spiral-point functions return for    *)
(*                       the arguments of a direct call                    *)
(*   replaced            which part of an accepted witness' layout was     *)
(*                       replaced by other values: "none", "positions",    *)
(*                       "metadata" or "vertices"                          *)
(*   requests            the service's requests in progress, each with its *)
(*                       position in generate_spiral_data and its local    *)
(*                       variables                                         *)
(*   response            the service's response to a request               *)
(***************************************************************************)
VARIABLES pc, seed, canvas_size, variant_id, quotient, config,
          positions, metadata, triangle_vertices, triangle_metadata,
          circuit, layout, per_arm, corrupted, regions, result,
          forged, point_calls, args, response, point, replaced, requests

vars == << pc, seed, canvas_size, variant_id, quotient, config,
           positions, metadata, triangle_vertices, triangle_metadata,
           circuit, layout, per_arm, corrupted, regions, result,
           forged, point_calls, args, response, point, replaced, requests >>

(***************************************************************************)
(* Inputs explored.                                                        *)
(***************************************************************************)
TestSeeds == { 0, 40, 41, 82, 123, 999, 5000, 12345 }

Seeds == (0 .. MaxSeed) \cup TestSeeds

CanvasSizes == (1 .. MaxCanvas) \cup { DEFAULT_CANVAS }

RequestCanvasSizes == { 0 } \cup CanvasSizes

SpiralTypes == { 0, 1, 2 }

DirectArms == 0 .. MaxDirectArms

PointArms == { 3, 8 }

ParticleIndexes == { 0, 1, 22, 23, 68, MaxParticleIndex }

Layouts == { "none", "particles", "triangles", "limited", "full" }

PerArmChoices == { SIXTY_NINE, TEST_PER_ARM }

DerivedFields == { "quotient", "variant_id", "spiral_type", "num_arms",
                   "spiral_quotient", "arms_quotient", "arms_remainder",
                   "particles_per_arm", "total_particles",
                   "triangles_per_arm", "total_triangles" }

Deltas == 1 .. MaxDelta

(***************************************************************************)
(* SimpleSpiralsCircuit::without_witnesses, with 0 for an unknown value.   *)
(***************************************************************************)
without_witnesses ==
    [ seed |-> 0, variant_id |-> 0, quotient |-> 0, spiral_type |-> 0,
      num_arms |-> 0, spiral_quotient |-> 0, arms_quotient |-> 0,
      arms_remainder |-> 0, particles_per_arm |-> 0, total_particles |-> 0,
      canvas_size |-> 0, particle_positions |-> << >>,
      particle_metadata |-> << >>, triangles_per_arm |-> 0,
      total_triangles |-> 0, triangle_vertices |-> << >>,
      triangle_metadata |-> << >> ]

Init ==
    /\ pc = "start"
    /\ seed \in Seeds
    /\ canvas_size \in RequestCanvasSizes
    /\ variant_id = 0
    /\ quotient = 0
    /\ config = << 0, 0, 0, 0, 0 >>
    /\ positions = << >>
    /\ metadata = << >>
    /\ triangle_vertices = << >>
    /\ triangle_metadata = << >>
    /\ circuit = without_witnesses
    /\ layout = "none"
    /\ per_arm = 0
    /\ corrupted = "none"
    /\ regions = << >>
    /\ result = "none"
    /\ forged = FALSE
    /\ point_calls = {}
    /\ args = << >>
    /\ response = no_response
    /\ point = no_point
    /\ replaced = "none"
    /\ requests = << >>

(***************************************************************************)
(* The callers' seed decomposition followed by the configuration mapping.  *)
(***************************************************************************)
(* The variant taken modulo 40 instead of 41.                              *)
seed_variant_mod40(s) == s % 40

seed_variant(s) == s % 41

(* The quotient rounded up instead of down.                                *)
seed_quotient_rounded_up(s) == (s + 40) \div 41

seed_quotient(s) == s \div 41

Derive ==
    /\ pc = "start"
    /\ canvas_size \in CanvasSizes
    /\ variant_id' = seed_variant(seed)
    /\ quotient' = seed_quotient(seed)
    /\ config' = calculate_configuration_mapping(seed_variant(seed))
    /\ pc' = "derived"
    /\ UNCHANGED << seed, canvas_size, positions, metadata, triangle_vertices,
                    triangle_metadata, circuit, layout, per_arm, corrupted,
                    regions, result,
                    forged, point_calls, args, response, point,
                    replaced, requests >>

GenerateParticles ==
    /\ pc = "derived"
    /\ LET generated == generate_spiral_particles(config[1], config[2], canvas_size)
       IN  /\ positions' = generated.positions
           /\ metadata' = generated.metadata
           /\ point_calls' = generated.calls
    /\ pc' = "particles"
    /\ UNCHANGED << seed, canvas_size, variant_id, quotient, config,
                    triangle_vertices, triangle_metadata, circuit, layout,
                    per_arm, corrupted, regions, result,
                    forged, args, response, point,
                    replaced, requests >>

GenerateTriangles ==
    /\ pc = "particles"
    /\ LET generated == generate_spiral_triangles(config[1], config[2], canvas_size)
       IN  /\ triangle_vertices' = generated.triangle_vertices
           /\ triangle_metadata' = generated.triangle_metadata
    /\ pc' = "triangles"
    /\ UNCHANGED << seed, canvas_size, variant_id, quotient, config, positions,
                    metadata, circuit, layout, per_arm, corrupted, regions,
                    result,
                    forged, point_calls, args, response, point,
                    replaced, requests >>

(***************************************************************************)
(* A direct call of generate_spiral_particles with arguments of the        *)
(* caller's choosing, no arms among them.  The call takes no seed: it is   *)
(* explored from the runs with seed 0 only.                                *)
(***************************************************************************)
DirectCall(spiral_type, num_arms) ==
    /\ pc = "start"
    /\ seed = 0
    /\ canvas_size \in CanvasSizes
    /\ LET generated == generate_spiral_particles(spiral_type, num_arms, canvas_size)
       IN  /\ positions' = generated.positions
           /\ metadata' = generated.metadata
           /\ point_calls' = generated.calls
    /\ args' = << spiral_type, num_arms >>
    /\ pc' = "called"
    /\ UNCHANGED << seed, canvas_size, variant_id, quotient, config,
                    triangle_vertices, triangle_metadata, circuit, layout,
                    per_arm, corrupted, regions, result, forged, response, point,
                    replaced, requests >>

(***************************************************************************)
(* The two spiral-point functions applied to the same arguments, particle  *)
(* indexes beyond the per-arm counts among them.  Explored from the runs   *)
(* with seed 0 only, as the functions take no seed.                        *)
(***************************************************************************)
CallPoint(arm_index, particle_index, total_arms, spiral_type) ==
    /\ pc = "start"
    /\ seed = 0
    /\ canvas_size \in CanvasSizes
    /\ arm_index < total_arms
    /\ point' = [ library |-> calculate_spiral_point(
                                  arm_index, particle_index, total_arms,
                                  spiral_type, canvas_size),
                  service |-> calculate_optimized_spiral_point(
                                  arm_index, particle_index, total_arms,
                                  spiral_type, canvas_size) ]
    /\ point_calls' = { total_arms }
    /\ args' = << arm_index, particle_index, total_arms, spiral_type >>
    /\ pc' = "point"
    /\ UNCHANGED << seed, canvas_size, variant_id, quotient, config, positions,
                    metadata, triangle_vertices, triangle_metadata, circuit,
                    layout, per_arm, corrupted, regions, result, forged,
                    response,
                    replaced, requests >>

(***************************************************************************)
(* The service answering a request for (seed, canvas_size).                *)
(***************************************************************************)
ServeRequest ==
    /\ pc = "start"
    /\ LET data == generate_spiral_data(seed, canvas_size)
       IN  /\ response' = data.response
           /\ point_calls' = data.calls
    /\ pc' = "served"
    /\ UNCHANGED << seed, canvas_size, variant_id, quotient, config, positions,
                    metadata, triangle_vertices, triangle_metadata, circuit,
                    layout, per_arm, corrupted, regions, result, forged, args, point,
                    replaced, requests >>

(***************************************************************************)
(* The SimpleSpiralsCircuit value a caller constructs from the derived     *)
(* configuration and the generated layout.  The layouts are the ones the   *)
(* callers use: no layout, the particles alone, the positions without      *)
(* metadata plus the triangles, the first TEST_TAKE entries without        *)
(* triangle metadata, and the whole layout.  The callers that build a      *)
(* circuit generate the layout on the default canvas.                      *)
(***************************************************************************)
take(s, n) == SubSeq(s, 1, min(n, Len(s)))

layout_particle_positions(l) ==
    CASE l = "none" -> << >>
      [] l = "limited" -> take(positions, TEST_TAKE)
      [] OTHER -> positions

layout_particle_metadata(l) ==
    CASE l \in { "none", "triangles" } -> << >>
      [] l = "limited" -> take(metadata, TEST_TAKE)
      [] OTHER -> metadata

layout_triangle_vertices(l) ==
    CASE l \in { "none", "particles" } -> << >>
      [] l = "limited" -> take(triangle_vertices, TEST_TAKE)
      [] OTHER -> triangle_vertices

layout_triangle_metadata(l) ==
    CASE l \in { "none", "particles", "limited" } -> << >>
      [] OTHER -> triangle_metadata

new_circuit(l, p) ==
    [ seed |-> seed,
      variant_id |-> variant_id,
      quotient |-> quotient,
      spiral_type |-> config[1],
      num_arms |-> config[2],
      spiral_quotient |-> config[3],
      arms_quotient |-> config[4],
      arms_remainder |-> config[5],
      particles_per_arm |-> p,
      total_particles |-> config[2] * p,
      canvas_size |-> canvas_size,
      particle_positions |-> layout_particle_positions(l),
      particle_metadata |-> layout_particle_metadata(l),
      triangles_per_arm |-> p,
      total_triangles |-> config[2] * p,
      triangle_vertices |-> layout_triangle_vertices(l),
      triangle_metadata |-> layout_triangle_metadata(l) ]

BuildCircuit(l, p) ==
    /\ pc = "triangles"
    /\ canvas_size = DEFAULT_CANVAS
    /\ circuit' = new_circuit(l, p)
    /\ layout' = l
    /\ per_arm' = p
    /\ pc' = "built"
    /\ UNCHANGED << seed, canvas_size, variant_id, quotient, config, positions,
                    metadata, triangle_vertices, triangle_metadata, corrupted,
                    regions, result,
                    forged, point_calls, args, response, point,
                    replaced, requests >>

(***************************************************************************)
(* A caller may decompose the seed with a variant id beyond 40: one        *)
(* multiple of 41 moved from the quotient into the variant id, and the     *)
(* configuration, the totals and the whole layout as for any variant id.   *)
(***************************************************************************)
out_of_range(c) ==
    LET v == c.variant_id + 41
        m == calculate_configuration_mapping(v)
    IN  [ c EXCEPT !.variant_id = v,
                   !.quotient = @ - 1,
                   !.spiral_type = m[1],
                   !.num_arms = m[2],
                   !.spiral_quotient = m[3],
                   !.arms_quotient = m[4],
                   !.arms_remainder = m[5],
                   !.total_particles = m[2] * c.particles_per_arm,
                   !.total_triangles = m[2] * c.triangles_per_arm ]

BuildOutOfRange ==
    /\ pc = "triangles"
    /\ canvas_size = DEFAULT_CANVAS
    /\ quotient >= 1
    /\ circuit' = out_of_range(new_circuit("full", SIXTY_NINE))
    /\ layout' = "full"
    /\ per_arm' = SIXTY_NINE
    /\ pc' = "built"
    /\ UNCHANGED << seed, canvas_size, variant_id, quotient, config, positions,
                    metadata, triangle_vertices, triangle_metadata, corrupted,
                    regions, result, forged, point_calls, args, response, point,
                    replaced, requests >>

(***************************************************************************)
(* The fields of SimpleSpiralsCircuit are public: a caller may take a      *)
(* circuit the prover accepted, change one derived field to another value  *)
(* and hand the changed circuit to the prover, who follows synthesize.     *)
(***************************************************************************)
Corrupt(f, d) ==
    /\ pc = "verified"
    /\ result = "Ok"
    /\ corrupted = "none"
    /\ ~forged
    /\ replaced = "none"
    /\ circuit' = [circuit EXCEPT ![f] = @ + d]
    /\ corrupted' = f
    /\ regions' = << >>
    /\ result' = "none"
    /\ pc' = "built"
    /\ UNCHANGED << seed, canvas_size, variant_id, quotient, config,
                    positions, metadata, triangle_vertices, triangle_metadata,
                    layout, per_arm,
                    forged, point_calls, args, response, point,
                    replaced, requests >>

(***************************************************************************)
(* A caller may also take a circuit the prover accepted with its whole     *)
(* layout and replace the particle positions, the particle metadata or the *)
(* triangle vertices by values of its own choosing, which no spiral point  *)
(* or micro-triangle produces.                                             *)
(***************************************************************************)
LayoutParts == { "positions", "metadata", "vertices" }

ReplacementValues == { 7, 1000003 }

replace_layout(c, part, v) ==
    CASE part = "positions" ->
             [ c EXCEPT !.particle_positions =
                            [k \in 1 .. Len(@) |-> << v, v + k >>] ]
      [] part = "metadata" ->
             [ c EXCEPT !.particle_metadata =
                            [k \in 1 .. Len(@) |-> << v, v, v + k >>] ]
      [] part = "vertices" ->
             [ c EXCEPT !.triangle_vertices =
                            [k \in 1 .. Len(@) |->
                                << v, v + 1, v + 2, v + 3, v + 4, v + 5 + k >>] ]

Replace(part, v) ==
    /\ pc = "verified"
    /\ result = "Ok"
    /\ corrupted = "none"
    /\ ~forged
    /\ replaced = "none"
    /\ layout = "full"
    /\ circuit' = replace_layout(circuit, part, v)
    /\ replaced' = part
    /\ regions' = << >>
    /\ result' = "none"
    /\ pc' = "built"
    /\ UNCHANGED << seed, canvas_size, variant_id, quotient, config,
                    positions, metadata, triangle_vertices, triangle_metadata,
                    layout, per_arm, corrupted, forged, point_calls, args,
                    response, point, requests >>

(***************************************************************************)
(* configure: the five gates.  A gate is given the value s of its selector *)
(* on the row (0 or 1) and the queried advice cells q of the row, indexed  *)
(* by advice column number, and yields the values of its polynomials.      *)
(***************************************************************************)
Gates == { "variant_selection", "config_mapping", "particle_verification",
           "triangle_verification", "trig_lookup" }

gate_selector(g) ==
    CASE g = "variant_selection" -> "selector_variant"
      [] g = "config_mapping" -> "selector_config"
      [] g = "particle_verification" -> "selector_particle"
      [] g = "triangle_verification" -> "selector_triangle"
      [] g = "trig_lookup" -> "selector_spiral"

gate_queries(g) ==
    CASE g = "variant_selection" -> { 0, 1, 2 }
      [] g = "config_mapping" -> { 2, 3, 4, 5, 6, 7, 8, 9, 16, 17 }
      [] g = "particle_verification" -> { 10, 11, 12 }
      [] g = "triangle_verification" -> { 18, 19, 20, 21, 22, 23 }
      [] g = "trig_lookup" -> { 15 }

(* The gate with 40 for the number of variants.                            *)
variant_selection_40(s, q) ==
    << s * (q[0] - (q[1] * 40 + q[2])) >>

variant_selection(s, q) ==
    << s * (q[0] - (q[1] * FORTY_ONE + q[2])) >>

(* The gate without its constraint on total_particles.                     *)
config_mapping_no_particle_total(s, q) ==
    << s * (q[2] - (q[5] * THREE + q[3])),
       s * (q[5] - (q[6] * SIX + q[7])),
       s * (q[4] - (THREE + q[7])),
       s * (q[8] - SIXTY_NINE),
       s * (q[16] - q[8]),
       s * (q[17] - (q[4] * q[16])) >>

(* The gate with the density constant of the callers' revision (23).      *)
config_mapping_23(s, q) ==
    << s * (q[2] - (q[5] * THREE + q[3])),
       s * (q[5] - (q[6] * SIX + q[7])),
       s * (q[4] - (THREE + q[7])),
       s * (q[8] - TEST_PER_ARM),
       s * (q[9] - (q[4] * q[8])),
       s * (q[16] - q[8]),
       s * (q[17] - (q[4] * q[16])) >>

(* The gate without its last constraint, the one on total_triangles.       *)
config_mapping_no_total(s, q) ==
    << s * (q[2] - (q[5] * THREE + q[3])),
       s * (q[5] - (q[6] * SIX + q[7])),
       s * (q[4] - (THREE + q[7])),
       s * (q[8] - SIXTY_NINE),
       s * (q[9] - (q[4] * q[8])),
       s * (q[16] - q[8]) >>

config_mapping(s, q) ==
    << s * (q[2] - (q[5] * THREE + q[3])),
       s * (q[5] - (q[6] * SIX + q[7])),
       s * (q[4] - (THREE + q[7])),
       s * (q[8] - SIXTY_NINE),
       s * (q[9] - (q[4] * q[8])),
       s * (q[16] - q[8]),
       s * (q[17] - (q[4] * q[16])) >>

particle_verification(s, q) ==
    << s * (q[11] - q[11]),
       s * (q[12] - q[12]) >>

(* The gate that also holds the two bottom vertices level.                 *)
triangle_verification_level(s, q) ==
    << s * (q[18] - q[18]),
       s * (q[19] - q[19]),
       s * (q[20] - q[20]),
       s * (q[21] - q[23]),
       s * (q[22] - q[22]),
       s * (q[23] - q[23]) >>

triangle_verification(s, q) ==
    << s * (q[18] - q[18]),
       s * (q[19] - q[19]),
       s * (q[20] - q[20]),
       s * (q[21] - q[21]),
       s * (q[22] - q[22]),
       s * (q[23] - q[23]) >>

trig_lookup(s, q) ==
    << s * (q[15] - q[15]) >>

gate_polys(g, s, q) ==
    CASE g = "variant_selection" -> variant_selection(s, q)
      [] g = "config_mapping" -> config_mapping(s, q)
      [] g = "particle_verification" -> particle_verification(s, q)
      [] g = "triangle_verification" -> triangle_verification(s, q)
      [] g = "trig_lookup" -> trig_lookup(s, q)

(***************************************************************************)
(* synthesize: four regions.  A region holds the selectors it enabled, as  *)
(* <<selector, row>>, and the advice cells it assigned, as a function from *)
(* <<column, row>> to the value; rows are relative to the region.  The     *)
(* loops over zip(..).enumerate() run over i = 0 .. min(len, len) - 1 and  *)
(* are written by halving, as above.                                       *)
(***************************************************************************)
empty_region == [ selectors |-> { }, cells |-> << >> ]

enable(region, selector, row) ==
    [region EXCEPT !.selectors = @ \cup { << selector, row >> }]

assign_advice(region, column, row, value) ==
    [region EXCEPT !.cells = (<< column, row >> :> value) @@ @]

(* What a stretch of loop iterations did to a region, followed by what the  *)
(* next stretch did: the later assignment of a cell is the one that stays. *)
merge_regions(earlier, later) ==
    [ selectors |-> earlier.selectors \cup later.selectors,
      cells |-> later.cells @@ earlier.cells ]

variant_region(c) ==
    LET r0 == enable(empty_region, "selector_variant", 0)
        r1 == assign_advice(r0, 0, 0, c.seed)
        r2 == assign_advice(r1, 1, 0, c.quotient)
    IN  assign_advice(r2, 2, 0, c.variant_id)

config_region(c) ==
    LET r0 == enable(empty_region, "selector_config", 0)
        r1 == assign_advice(r0, 2, 0, c.variant_id)
        r2 == assign_advice(r1, 3, 0, c.spiral_type)
        r3 == assign_advice(r2, 4, 0, c.num_arms)
        r4 == assign_advice(r3, 5, 0, c.spiral_quotient)
        r5 == assign_advice(r4, 6, 0, c.arms_quotient)
        r6 == assign_advice(r5, 7, 0, c.arms_remainder)
        r7 == assign_advice(r6, 8, 0, c.particles_per_arm)
        r8 == assign_advice(r7, 9, 0, c.total_particles)
        r9 == assign_advice(r8, 10, 0, c.canvas_size)
        r10 == assign_advice(r9, 16, 0, c.triangles_per_arm)
    IN  assign_advice(r10, 17, 0, c.total_triangles)

(* The particle row that also enables the selector of the trig lookup.     *)
particle_row_with_lookup(c, i, region) ==
    LET xy == c.particle_positions[i + 1]
        md == c.particle_metadata[i + 1]
        r0 == enable(enable(region, "selector_particle", i), "selector_spiral", i)
        r1 == assign_advice(r0, 11, i, xy[1])
        r2 == assign_advice(r1, 12, i, xy[2])
        r3 == assign_advice(r2, 13, i, md[1])
        r4 == assign_advice(r3, 14, i, md[2])
        r5 == assign_advice(r4, 15, i, md[3])
    IN  assign_advice(r5, 10, i, c.canvas_size)

particle_row(c, i, region) ==
    LET xy == c.particle_positions[i + 1]
        md == c.particle_metadata[i + 1]
        r0 == enable(region, "selector_particle", i)
        r1 == assign_advice(r0, 11, i, xy[1])
        r2 == assign_advice(r1, 12, i, xy[2])
        r3 == assign_advice(r2, 13, i, md[1])
        r4 == assign_advice(r3, 14, i, md[2])
        r5 == assign_advice(r4, 15, i, md[3])
    IN  assign_advice(r5, 10, i, c.canvas_size)

(* The particle loop with the row test i <= 50 instead of i < 50.          *)
RECURSIVE particle_loop_off(_, _, _)
particle_loop_off(c, lo, hi) ==
    IF lo >= hi
    THEN empty_region
    ELSE IF hi = lo + 1
    THEN LET i == lo
         IN  IF i <= ROW_LIMIT THEN particle_row(c, i, empty_region)
                               ELSE empty_region
    ELSE LET mid == (lo + hi) \div 2
         IN  merge_regions(particle_loop_off(c, lo, mid),
                           particle_loop_off(c, mid, hi))

RECURSIVE particle_loop(_, _, _)
particle_loop(c, lo, hi) ==
    IF lo >= hi
    THEN empty_region
    ELSE IF hi = lo + 1
    THEN LET i == lo
         IN  IF i < ROW_LIMIT THEN particle_row(c, i, empty_region)
                              ELSE empty_region
    ELSE LET mid == (lo + hi) \div 2
         IN  merge_regions(particle_loop(c, lo, mid), particle_loop(c, mid, hi))

(* The particle region with the loop starting at the second entry.         *)
particle_region_from_second(c) ==
    particle_loop(c, 1, min(Len(c.particle_positions), Len(c.particle_metadata)))

particle_region(c) ==
    particle_loop(c, 0, min(Len(c.particle_positions), Len(c.particle_metadata)))

triangle_row(c, i, region) ==
    LET v == c.triangle_vertices[i + 1]
        r0 == enable(region, "selector_triangle", i)
        r1 == assign_advice(r0, 18, i, v[1])
        r2 == assign_advice(r1, 19, i, v[2])
        r3 == assign_advice(r2, 20, i, v[3])
        r4 == assign_advice(r3, 21, i, v[4])
        r5 == assign_advice(r4, 22, i, v[5])
    IN  assign_advice(r5, 23, i, v[6])

RECURSIVE triangle_loop(_, _, _)
triangle_loop(c, lo, hi) ==
    IF lo >= hi
    THEN empty_region
    ELSE IF hi = lo + 1
    THEN LET i == lo
         IN  IF i < ROW_LIMIT THEN triangle_row(c, i, empty_region)
                              ELSE empty_region
    ELSE LET mid == (lo + hi) \div 2
         IN  merge_regions(triangle_loop(c, lo, mid), triangle_loop(c, mid, hi))

triangle_region(c) ==
    triangle_loop(c, 0, min(Len(c.triangle_vertices), Len(c.triangle_metadata)))

synthesize(c) ==
    << variant_region(c), config_region(c), particle_region(c),
       triangle_region(c) >>

Synthesize ==
    /\ pc = "built"
    /\ regions' = synthesize(circuit)
    /\ pc' = "synthesized"
    /\ UNCHANGED << seed, canvas_size, variant_id, quotient, config, positions,
                    metadata, triangle_vertices, triangle_metadata, circuit,
                    layout, per_arm, corrupted, result,
                    forged, point_calls, args, response, point,
                    replaced, requests >>

(***************************************************************************)
(* The copy constraints of the circuit: pairs of cells                     *)
(* <<region, column, row>> that synthesize ties together.  configure       *)
(* enables equality on every advice column, and synthesize assigns every   *)
(* cell afresh with assign_advice: it ties no two cells.                   *)
(***************************************************************************)
copy_constraints == {}

(***************************************************************************)
(* The advice cells are the prover's to fill.  A prover who does not       *)
(* follow synthesize can replace the cells of the configuration-mapping    *)
(* region by those of another variant's configuration, leaving the         *)
(* variant-selection region as it was.                                     *)
(***************************************************************************)
other_variant(c, d) ==
    LET v == (c.variant_id + d) % 41
        m == calculate_configuration_mapping(v)
    IN  [ c EXCEPT !.variant_id = v,
                   !.spiral_type = m[1],
                   !.num_arms = m[2],
                   !.spiral_quotient = m[3],
                   !.arms_quotient = m[4],
                   !.arms_remainder = m[5],
                   !.total_particles = m[2] * c.particles_per_arm,
                   !.total_triangles = m[2] * c.triangles_per_arm ]

Forge(d) ==
    /\ pc = "synthesized"
    /\ corrupted = "none"
    /\ ~forged
    /\ replaced = "none"
    /\ regions' = [regions EXCEPT ![2] = config_region(other_variant(circuit, d))]
    /\ forged' = TRUE
    /\ UNCHANGED << pc, seed, canvas_size, variant_id, quotient, config,
                    positions, metadata, triangle_vertices, triangle_metadata,
                    circuit, layout, per_arm, corrupted, result, point_calls,
                    args, response, point,
                    replaced, requests >>

(***************************************************************************)
(* The mock prover's verdict on the assignment: on every row of every      *)
(* region each gate's polynomials are zero, and a gate whose selector is   *)
(* enabled on a row queries only cells the region assigned on that row.    *)
(* A cell that was not assigned holds zero.  All gates query the current   *)
(* row only, and the regions that share rows of the grid (the triangle     *)
(* region starts at row 0) use disjoint columns and selectors, so the      *)
(* regions are judged one by one.  The two cells of every copy constraint  *)
(* hold the same value.                                                    *)
(***************************************************************************)
region_rows(region) ==
    { cr[2] : cr \in DOMAIN region.cells } \cup { sr[2] : sr \in region.selectors }

cell_value(region, column, row) ==
    IF << column, row >> \in DOMAIN region.cells
    THEN region.cells[<< column, row >>]
    ELSE 0

gate_satisfied(g, region, row) ==
    LET s == IF << gate_selector(g), row >> \in region.selectors THEN 1 ELSE 0
        q == [column \in gate_queries(g) |-> cell_value(region, column, row)]
        polys == gate_polys(g, s, q)
    IN  /\ s = 1 => \A column \in gate_queries(g) :
                        << column, row >> \in DOMAIN region.cells
        /\ \A k \in 1 .. Len(polys) : polys[k] = 0

copies_satisfied(regs) ==
    \A e \in copy_constraints :
        cell_value(regs[e[1][1]], e[1][2], e[1][3]) =
            cell_value(regs[e[2][1]], e[2][2], e[2][3])

verify(regs) ==
    IF /\ \A n \in 1 .. Len(regs) : \A row \in region_rows(regs[n]) :
              \A g \in Gates : gate_satisfied(g, regs[n], row)
       /\ copies_satisfied(regs)
    THEN "Ok"
    ELSE "Err"

Verify ==
    /\ pc = "synthesized"
    /\ result' = verify(regions)
    /\ pc' = "verified"
    /\ UNCHANGED << seed, canvas_size, variant_id, quotient, config, positions,
                    metadata, triangle_vertices, triangle_metadata, circuit,
                    layout, per_arm, corrupted, regions,
                    forged, point_calls, args, response, point,
                    replaced, requests >>

Next ==
    \/ Derive
    \/ GenerateParticles
    \/ GenerateTriangles
    \/ \E l \in Layouts, p \in PerArmChoices : BuildCircuit(l, p)
    \/ BuildOutOfRange
    \/ \E f \in DerivedFields, d \in Deltas : Corrupt(f, d)
    \/ \E part \in LayoutParts, v \in ReplacementValues : Replace(part, v)
    \/ Synthesize
    \/ \E d \in Deltas : Forge(d)
    \/ Verify
    \/ \E spiral_type \in SpiralTypes, num_arms \in DirectArms :
           DirectCall(spiral_type, num_arms)
    \/ ServeRequest
    \/ \E total_arms \in PointArms, arm_index \in 0 .. 7,
          particle_index \in ParticleIndexes, spiral_type \in SpiralTypes :
           CallPoint(arm_index, particle_index, total_arms, spiral_type)

Spec == Init /\ [][Next]_vars

(***************************************************************************)
(* Concurrent requests.  The service runs every request as a task of its   *)
(* own, and the tasks of several requests run on the runtime's threads at  *)
(* the same time.  generate_spiral_data is followed through its steps:     *)
(* the derivation of the configuration, one step per iteration of the arm  *)
(* loop, the triangles, the response.  What a step reads and writes are    *)
(* the local variables of its own call; the steps of the requests          *)
(* interleave in any order.                                                *)
(***************************************************************************)
Requests == { 1, 2 }

ConcurrentSeeds == { 0, 10 }

ConcurrentCanvasSizes == { 0, MaxCanvas }

new_request(requested_seed, requested_canvas) ==
    [ pc |-> "accept",
      seed |-> requested_seed,
      requested_canvas |-> requested_canvas,
      canvas_size |-> 0,
      variant |-> 0,
      mapping |-> << 0, 0, 0, 0, 0 >>,
      arm_index |-> 0,
      positions |-> << >>,
      metadata |-> << >>,
      triangles |-> << >>,
      response |-> no_response ]

accept(reqs, r) ==
    LET variant == reqs[r].seed % 41
    IN  [ reqs EXCEPT ![r].canvas_size = effective_canvas_size(reqs[r].requested_canvas),
                      ![r].variant = variant,
                      ![r].mapping = calculate_configuration_mapping(variant),
                      ![r].pc = "particles" ]

(* The arm loop pushing into the buffers of the first request, whichever   *)
(* request runs it.                                                        *)
push_arm_shared(reqs, r) ==
    LET pushed == spiral_data_inner_loop(reqs[r].arm_index, 0, 23,
                                         reqs[r].mapping[2], reqs[r].mapping[1],
                                         reqs[r].canvas_size)
        shared == [ reqs EXCEPT ![1].positions = @ \o pushed.positions,
                                ![1].metadata = @ \o pushed.metadata ]
    IN  [ shared EXCEPT ![r].arm_index = @ + 1 ]

push_arm(reqs, r) ==
    LET pushed == spiral_data_inner_loop(reqs[r].arm_index, 0, 23,
                                         reqs[r].mapping[2], reqs[r].mapping[1],
                                         reqs[r].canvas_size)
    IN  [ reqs EXCEPT ![r].positions = @ \o pushed.positions,
                      ![r].metadata = @ \o pushed.metadata,
                      ![r].arm_index = @ + 1 ]

make_triangles(reqs, r) ==
    [ reqs EXCEPT ![r].triangles =
                      generate_optimized_triangles(reqs[r].positions,
                                                   reqs[r].mapping[2],
                                                   reqs[r].canvas_size),
                  ![r].pc = "respond" ]

respond(reqs, r) ==
    LET particles_per_arm == 23
        num_arms == reqs[r].mapping[2]
        particles == [k \in 1 .. min(Len(reqs[r].positions), Len(reqs[r].metadata)) |->
                         << reqs[r].positions[k][1], reqs[r].positions[k][2],
                            reqs[r].metadata[k][1], reqs[r].metadata[k][2] >>]
    IN  [ reqs EXCEPT ![r].response =
                          [ seed |-> reqs[r].seed,
                            variant |-> reqs[r].variant,
                            spiral_type |-> reqs[r].mapping[1],
                            num_arms |-> num_arms,
                            particles |-> particles,
                            triangles |-> reqs[r].triangles,
                            config |-> reqs[r].mapping,
                            galaxy_stats |->
                                [ particles_per_arm |-> particles_per_arm,
                                  total_particles |-> num_arms * particles_per_arm,
                                  micro_triangles |-> Len(reqs[r].triangles) ] ],
                      ![r].pc = "done" ]

run_vars == << pc, seed, canvas_size, variant_id, quotient, config,
               positions, metadata, triangle_vertices, triangle_metadata,
               circuit, layout, per_arm, corrupted, regions, result,
               forged, point_calls, args, response, point, replaced >>

InitConcurrent ==
    /\ pc = "serving"
    /\ seed = 0
    /\ canvas_size = 0
    /\ variant_id = 0
    /\ quotient = 0
    /\ config = << 0, 0, 0, 0, 0 >>
    /\ positions = << >>
    /\ metadata = << >>
    /\ triangle_vertices = << >>
    /\ triangle_metadata = << >>
    /\ circuit = without_witnesses
    /\ layout = "none"
    /\ per_arm = 0
    /\ corrupted = "none"
    /\ regions = << >>
    /\ result = "none"
    /\ forged = FALSE
    /\ point_calls = {}
    /\ args = << >>
    /\ response = no_response
    /\ point = no_point
    /\ replaced = "none"
    /\ \E first \in ConcurrentSeeds \X ConcurrentCanvasSizes :
           \E second \in (ConcurrentSeeds \X ConcurrentCanvasSizes) \ { first } :
               requests = [r \in Requests |->
                              IF r = 1 THEN new_request(first[1], first[2])
                                       ELSE new_request(second[1], second[2])]

Accept(r) ==
    /\ requests[r].pc = "accept"
    /\ requests' = accept(requests, r)
    /\ UNCHANGED run_vars

PushArm(r) ==
    /\ requests[r].pc = "particles"
    /\ requests[r].arm_index < requests[r].mapping[2]
    /\ requests' = push_arm(requests, r)
    /\ UNCHANGED run_vars

MakeTriangles(r) ==
    /\ requests[r].pc = "particles"
    /\ requests[r].arm_index >= requests[r].mapping[2]
    /\ requests' = make_triangles(requests, r)
    /\ UNCHANGED run_vars

Respond(r) ==
    /\ requests[r].pc = "respond"
    /\ requests' = respond(requests, r)
    /\ UNCHANGED run_vars

NextConcurrent ==
    \E r \in Requests :
        \/ Accept(r)
        \/ PushArm(r)
        \/ MakeTriangles(r)
        \/ Respond(r)

SpecConcurrent == InitConcurrent /\ [][NextConcurrent]_vars

(***************************************************************************)
(* Properties.                                                             *)
(***************************************************************************)
Derived == pc \notin { "start", "called", "served", "point" }

Generated == Derived /\ pc # "derived"

TrianglesGenerated == Generated /\ pc # "particles"

Called == pc = "called"

Served == pc = "served"

PointCalled == pc = "point"

Synthesized == pc \in { "synthesized", "verified" }

(* C1: for every variant_id in [0,41) the configuration mapping returns    *)
(* values with variant_id = spiral_quotient*3 + spiral_type,               *)
(* spiral_quotient = arms_quotient*6 + arms_remainder,                     *)
(* num_arms = 3 + arms_remainder, spiral_type in {0,1,2}, num_arms in 3..8 *)
C1_ConfigurationMapping ==
    (Derived /\ variant_id \in 0 .. 40) =>
        LET spiral_type == config[1]
            num_arms == config[2]
            spiral_quotient == config[3]
            arms_quotient == config[4]
            arms_remainder == config[5]
        IN  /\ variant_id = spiral_quotient * 3 + spiral_type
            /\ spiral_quotient = arms_quotient * 6 + arms_remainder
            /\ num_arms = 3 + arms_remainder
            /\ spiral_type \in { 0, 1, 2 }
            /\ num_arms \in 3 .. 8

C1_Witness ==
    /\ pc = "derived"
    /\ variant_id = 40
    /\ config = << 1, 4, 13, 2, 1 >>

(* C2: for every seed, seed = quotient*41 + variant_id and variant_id is   *)
(* in [0,41), with variant_id and quotient as the callers compute them.    *)
C2_SeedDecomposition ==
    Derived => /\ seed = quotient * 41 + variant_id
               /\ variant_id \in 0 .. 40

C2_Witness ==
    /\ pc = "derived"
    /\ seed = 5000
    /\ quotient = 121
    /\ variant_id = 39

(* C3: the witness built from a seed's derived configuration, with the     *)
(* circuit's density constant per arm, num_arms times it as the totals and *)
(* the whole generated layout, is accepted.                                *)
C3_DerivedWitnessAccepted ==
    ( /\ pc = "verified"
      /\ corrupted = "none"
      /\ per_arm = SIXTY_NINE
      /\ layout = "full" ) => result = "Ok"

C3_Witness ==
    /\ pc = "verified"
    /\ corrupted = "none"
    /\ per_arm = SIXTY_NINE
    /\ layout = "full"
    /\ seed \in { 0, 40, 41, 82, 5000 }
    /\ Len(circuit.particle_positions) > ROW_LIMIT
    /\ result = "Ok"

(* C4: an accepted witness in which exactly one derived field was changed  *)
(* to another value is rejected.                                           *)
C4_CorruptedWitnessRejected ==
    (pc = "verified" /\ corrupted # "none") => result = "Err"

C4_Witness ==
    /\ pc = "verified"
    /\ corrupted = "num_arms"
    /\ circuit.num_arms = config[2] + 1
    /\ result = "Err"

(* C5: generate_spiral_particles returns exactly num_arms times the        *)
(* circuit's density constant positions, and as many metadata entries.     *)
C5_ParticleCount ==
    Generated => /\ Len(positions) = config[2] * SIXTY_NINE
                 /\ Len(metadata) = config[2] * SIXTY_NINE

C5_Witness ==
    /\ pc = "particles"
    /\ config[2] = 8
    /\ Len(positions) = 552
    /\ Len(metadata) = 552

(* C6: every generated position (x, y) has 0 <= x <= canvas_size and       *)
(* 0 <= y <= canvas_size.                                                  *)
C6_PositionsOnCanvas ==
    Generated =>
        \A k \in 1 .. Len(positions) :
            /\ 0 <= positions[k][1] /\ positions[k][1] <= canvas_size
            /\ 0 <= positions[k][2] /\ positions[k][2] <= canvas_size

C6_Witness ==
    /\ pc = "particles"
    /\ canvas_size = DEFAULT_CANVAS
    /\ \E k \in 1 .. Len(positions) : positions[k][1] > canvas_size - 10

(* C7: every vertex coordinate of every generated triangle lies within     *)
(* [0, canvas_size].                                                       *)
C7_TrianglesOnCanvas ==
    TrianglesGenerated =>
        \A k \in 1 .. Len(triangle_vertices) :
            \A j \in 1 .. 6 :
                /\ 0 <= triangle_vertices[k][j]
                /\ triangle_vertices[k][j] <= canvas_size

(* C8: the triangles are as many as the particles, and the k-th triangle   *)
(* is built around the k-th particle: its top vertex has the particle's x, *)
(* and its metadata has the particle's arm index and particle index.       *)
C8_TrianglesAlignedWithParticles ==
    TrianglesGenerated =>
        /\ Len(triangle_vertices) = Len(positions)
        /\ Len(triangle_metadata) = Len(positions)
        /\ \A k \in 1 .. Len(positions) :
               /\ triangle_vertices[k][1] = positions[k][1]
               /\ triangle_metadata[k][1] = metadata[k][1]
               /\ triangle_metadata[k][2] = metadata[k][2]

C8_Witness ==
    /\ pc = "triangles"
    /\ Len(triangle_vertices) = 552
    /\ triangle_vertices[552][1] = positions[552][1]
    /\ triangle_vertices[552][1] # triangle_vertices[552][3]
    /\ triangle_metadata[552] = << 7, 68, 0 >>

(* The advice columns the particle region and the triangle region assign.  *)
particle_columns == { 10, 11, 12, 13, 14, 15 }

triangle_columns == { 18, 19, 20, 21, 22, 23 }

(* C10: given more entries than the row budget, synthesize places exactly  *)
(* the first ROW_LIMIT entries, entry i in row i with the selector         *)
(* enabled, assigns nothing for the remaining entries, and completes.      *)
C10_Truncation ==
    Synthesized =>
        /\ ( /\ Len(circuit.particle_positions) > ROW_LIMIT
             /\ Len(circuit.particle_metadata) > ROW_LIMIT ) =>
               /\ regions[3].selectors =
                      { << "selector_particle", i >> : i \in 0 .. ROW_LIMIT - 1 }
               /\ DOMAIN regions[3].cells =
                      particle_columns \X (0 .. ROW_LIMIT - 1)
               /\ \A i \in 0 .. ROW_LIMIT - 1 :
                      /\ regions[3].cells[<< 11, i >>] = circuit.particle_positions[i + 1][1]
                      /\ regions[3].cells[<< 12, i >>] = circuit.particle_positions[i + 1][2]
                      /\ regions[3].cells[<< 13, i >>] = circuit.particle_metadata[i + 1][1]
                      /\ regions[3].cells[<< 14, i >>] = circuit.particle_metadata[i + 1][2]
                      /\ regions[3].cells[<< 15, i >>] = circuit.particle_metadata[i + 1][3]
                      /\ regions[3].cells[<< 10, i >>] = circuit.canvas_size
        /\ ( /\ Len(circuit.triangle_vertices) > ROW_LIMIT
             /\ Len(circuit.triangle_metadata) > ROW_LIMIT ) =>
               /\ regions[4].selectors =
                      { << "selector_triangle", i >> : i \in 0 .. ROW_LIMIT - 1 }
               /\ DOMAIN regions[4].cells =
                      triangle_columns \X (0 .. ROW_LIMIT - 1)
               /\ \A i \in 0 .. ROW_LIMIT - 1 :
                      \A j \in 1 .. 6 :
                          regions[4].cells[<< 17 + j, i >>] =
                              circuit.triangle_vertices[i + 1][j]

C10_Witness ==
    /\ pc = "synthesized"
    /\ layout = "full"
    /\ Len(circuit.particle_positions) = 207
    /\ Len(circuit.triangle_vertices) = 207
    /\ << 11, ROW_LIMIT - 1 >> \in DOMAIN regions[3].cells
    /\ << 11, ROW_LIMIT >> \notin DOMAIN regions[3].cells
    /\ << 23, ROW_LIMIT - 1 >> \in DOMAIN regions[4].cells
    /\ << 23, ROW_LIMIT >> \notin DOMAIN regions[4].cells

(* C11: the variant_id cell of the variant-selection region and the        *)
(* variant_id cell of the configuration-mapping region hold the same value *)
(* in every assignment the circuit accepts.                                *)
C11_VariantCellsTied ==
    (pc = "verified" /\ result = "Ok") =>
        regions[1].cells[<< 2, 0 >>] = regions[2].cells[<< 2, 0 >>]

(* C12: for every seed, the witness with the seed's derived configuration, *)
(* 23 particles and triangles per arm and num_arms times 23 as the totals  *)
(* is accepted.                                                            *)
C12_TestDensityAccepted ==
    ( /\ pc = "verified"
      /\ corrupted = "none"
      /\ ~forged
      /\ per_arm = TEST_PER_ARM ) => result = "Ok"

(* C13: generate_spiral_particles returns exactly num_arms times 23        *)
(* positions and generate_spiral_triangles exactly num_arms times 23       *)
(* triangles.                                                              *)
C13_TestDensityCount ==
    /\ Generated => Len(positions) = config[2] * TEST_PER_ARM
    /\ TrianglesGenerated => Len(triangle_vertices) = config[2] * TEST_PER_ARM

(* C14: seed 12345 decomposes into variant_id 10 and quotient 301.         *)
C14_Seed12345 ==
    (Derived /\ seed = 12345) => (variant_id = 10 /\ quotient = 301)

(* C14, amended: seed 12345 decomposes into variant_id 4 and quotient 301. *)
C14_Seed12345Amended ==
    (Derived /\ seed = 12345) => (variant_id = 4 /\ quotient = 301)

C14_Witness ==
    /\ pc = "derived"
    /\ seed = 12345
    /\ variant_id = 4
    /\ quotient = 301
    /\ seed = quotient * 41 + variant_id

(* C15: calculate_configuration_mapping(10) returns spiral_type 1 and      *)
(* num_arms 3.                                                             *)
C15_MappingOfTen ==
    (Derived /\ variant_id = 10) => (config[1] = 1 /\ config[2] = 3)

(* C15, amended: calculate_configuration_mapping(10) returns spiral_type 1 *)
(* and num_arms 6.                                                         *)
C15_MappingOfTenAmended ==
    (Derived /\ variant_id = 10) => (config[1] = 1 /\ config[2] = 6)

C15_Witness ==
    /\ pc = "derived"
    /\ variant_id = 10
    /\ config = << 1, 6, 3, 0, 3 >>

(* C16: in every micro-triangle of the circuit module and of the service,  *)
(* y1 is the centre's y less half the size and x2 the centre's x less half *)
(* the size, each replaced by zero when the difference is negative; and    *)
(* every coordinate of the service's spiral point is the centre plus the   *)
(* signed offset, replaced by zero when the sum is negative.               *)
C16_SubtractionSaturates ==
    /\ TrianglesGenerated =>
           \A k \in 1 .. Len(triangle_vertices) :
               LET size == IF 6 - (metadata[k][2] * 4) \div 69 > 2
                           THEN 6 - (metadata[k][2] * 4) \div 69 ELSE 2
                   y1 == positions[k][2] - size \div 2
                   x2 == positions[k][1] - size \div 2
               IN  /\ triangle_vertices[k][2] = IF y1 < 0 THEN 0 ELSE y1
                   /\ triangle_vertices[k][3] = IF x2 < 0 THEN 0 ELSE x2
    /\ Served =>
           \A k \in 1 .. Len(response.triangles) :
               LET y1 == response.particles[k][2] - response.triangles[k].size \div 2
                   x2 == response.particles[k][1] - response.triangles[k].size \div 2
               IN  /\ response.triangles[k].vertices[2] = IF y1 < 0 THEN 0 ELSE y1
                   /\ response.triangles[k].vertices[3] = IF x2 < 0 THEN 0 ELSE x2
    /\ PointCalled =>
           LET radius == (((args[2] * 1000) \div 23) * ((canvas_size * 40) \div 100)) \div 1000
               offset_x == radius * COS_TABLE[point.service[3] + 1]
               offset_y == radius * SIN_TABLE[point.service[3] + 1]
               x == canvas_size \div 2 + (IF offset_x < 0 THEN -((-offset_x) \div 10000)
                                                          ELSE offset_x \div 10000)
               y == canvas_size \div 2 + (IF offset_y < 0 THEN -((-offset_y) \div 10000)
                                                          ELSE offset_y \div 10000)
           IN  /\ point.service[1] = IF x < 0 THEN 0 ELSE x
               /\ point.service[2] = IF y < 0 THEN 0 ELSE y

C16_Witness ==
    /\ pc = "triangles"
    /\ canvas_size = 1
    /\ positions[1] = << 0, 0 >>
    /\ triangle_vertices[1][2] = 0
    /\ triangle_vertices[1][3] = 0
    /\ triangle_vertices[1][4] = 3

(* C17: no call of a spiral-point function made by                        *)
(* generate_spiral_particles, whatever its num_arms, or by                 *)
(* generate_spiral_data, whatever its seed and canvas_size, has            *)
(* total_arms = 0.                                                         *)
C17_TotalArmsPositive ==
    (Generated \/ Called \/ Served) => \A total_arms \in point_calls : total_arms >= 1

C17_Witness ==
    /\ pc = "called"
    /\ args[2] = 0
    /\ point_calls = {}
    /\ positions = << >>

(* C18: for total_arms in 3..8 and a particle index below both per-arm     *)
(* counts, calculate_optimized_spiral_point and calculate_spiral_point     *)
(* return the same (x, y, angle_index).                                    *)
C18_SamePointFunction ==
    (PointCalled /\ args[3] \in 3 .. 8 /\ args[2] < TEST_PER_ARM) =>
        point.service = point.library

(* C19: in every generated triangle the width (largest x less smallest x  *)
(* of the three vertices) and the height (largest y less smallest y) are   *)
(* at most 12.                                                             *)
C19_MicroTriangles ==
    TrianglesGenerated =>
        \A k \in 1 .. Len(triangle_vertices) :
            LET xs == { triangle_vertices[k][j] : j \in { 1, 3, 5 } }
                ys == { triangle_vertices[k][j] : j \in { 2, 4, 6 } }
            IN  /\ \A a \in xs : \A b \in xs : a - b <= 12
                /\ \A a \in ys : \A b \in ys : a - b <= 12

C19_Witness ==
    /\ pc = "triangles"
    /\ canvas_size = DEFAULT_CANVAS
    /\ config[2] = 8
    /\ triangle_vertices[1][5] - triangle_vertices[1][3] = 6
    /\ triangle_vertices[1][4] - triangle_vertices[1][2] = 6

(* The radial zone (0 .. 4) the distribution test puts a position in: five *)
(* times the whole part of the distance from the centre, divided by half   *)
(* the canvas, and at most 4.                                              *)
radial_zone(position, canvas) ==
    LET center_x == canvas \div 2
        center_y == canvas \div 2
        dx == abs(position[1] - center_x)
        dy == abs(position[2] - center_y)
        distance_sq == dx * dx + dy * dy
        distance == CHOOSE r \in 0 .. 2 * canvas :
                        r * r <= distance_sq /\ distance_sq < (r + 1) * (r + 1)
    IN  min((distance * 5) \div (canvas \div 2), 4)

(* C20: with num_arms = 6 on the canvas of 420, for each spiral type, the  *)
(* generated positions include one in radial zone 0 (the core) and one in  *)
(* radial zone 4 (the edge).                                               *)
C20_CoreAndEdge ==
    (Generated /\ config[2] = 6 /\ canvas_size = 420) =>
        /\ \E k \in 1 .. Len(positions) : radial_zone(positions[k], canvas_size) = 0
        /\ \E k \in 1 .. Len(positions) : radial_zone(positions[k], canvas_size) = 4

C20_Witness ==
    /\ pc = "particles"
    /\ config[1] = 2
    /\ config[2] = 6
    /\ canvas_size = 420
    /\ radial_zone(positions[1], canvas_size) = 0
    /\ radial_zone(positions[Len(positions)], canvas_size) = 4

(* C21: whatever the interleaving of the steps of two requests with        *)
(* different (seed, canvas_size), the response of each is the response the *)
(* request gets when it runs alone.                                        *)
C21_RequestsIndependent ==
    \A r \in DOMAIN requests :
        requests[r].pc = "done" =>
            requests[r].response =
                generate_spiral_data(requests[r].seed,
                                     requests[r].requested_canvas).response

C21_Witness ==
    /\ DOMAIN requests = Requests
    /\ requests[1].pc = "done"
    /\ requests[2].pc = "done"
    /\ requests[1].seed = 10
    /\ requests[2].seed = 0
    /\ Len(requests[1].response.particles) = 138
    /\ Len(requests[2].response.particles) = 69
    /\ requests[1].response # requests[2].response

(* C22: a witness with a variant id of 41 or more, the seed equal to       *)
(* quotient*41 + variant_id, and the configuration values of               *)
(* calculate_configuration_mapping for that variant id, is accepted.       *)
C22_OutOfRangeVariantAccepted ==
    ( /\ pc = "verified"
      /\ circuit.variant_id >= 41
      /\ corrupted = "none"
      /\ ~forged
      /\ replaced = "none" ) =>
        /\ circuit.seed = circuit.quotient * 41 + circuit.variant_id
        /\ result = "Ok"

C22_Witness ==
    /\ pc = "verified"
    /\ circuit.seed = 41
    /\ circuit.quotient = 0
    /\ circuit.variant_id = 41
    /\ circuit.num_arms = 4
    /\ corrupted = "none"
    /\ ~forged
    /\ result = "Ok"

(* C23: an accepted witness whose particle positions, particle metadata or *)
(* triangle vertices are replaced by arbitrary values is still accepted.   *)
C23_LayoutUnconstrained ==
    (pc = "verified" /\ replaced # "none") => result = "Ok"

C23_Witness ==
    /\ pc = "verified"
    /\ replaced = "positions"
    /\ regions[3].cells[<< 11, 0 >>] = 1000003
    /\ regions[3].cells[<< 12, ROW_LIMIT - 1 >>] = 1000003 + ROW_LIMIT
    /\ positions[1] # << 1000003, 1000004 >>
    /\ result = "Ok"

(* C24: in every accepted witness the configuration row has               *)
(* particles_per_arm = 69, total_particles = num_arms * particles_per_arm, *)
(* triangles_per_arm = particles_per_arm and                               *)
(* total_triangles = num_arms * triangles_per_arm, hence                   *)
(* total_triangles = total_particles.                                      *)
C24_DensityConstraints ==
    (pc = "verified" /\ result = "Ok") =>
        LET num_arms == regions[2].cells[<< 4, 0 >>]
            particles_per_arm == regions[2].cells[<< 8, 0 >>]
            total_particles == regions[2].cells[<< 9, 0 >>]
            triangles_per_arm == regions[2].cells[<< 16, 0 >>]
            total_triangles == regions[2].cells[<< 17, 0 >>]
        IN  /\ particles_per_arm = 69
            /\ total_particles = num_arms * particles_per_arm
            /\ triangles_per_arm = particles_per_arm
            /\ total_triangles = num_arms * triangles_per_arm
            /\ total_triangles = total_particles

C24_Witness ==
    /\ pc = "verified"
    /\ result = "Ok"
    /\ regions[2].cells[<< 4, 0 >>] = 8
    /\ regions[2].cells[<< 8, 0 >>] = 69
    /\ regions[2].cells[<< 9, 0 >>] = 552
    /\ regions[2].cells[<< 16, 0 >>] = 69
    /\ regions[2].cells[<< 17, 0 >>] = 552

(* C25: the angle index a spiral-point function returns is                 *)
(* (arm_index*32 div total_arms + progression) mod 32 and lies in 0 .. 31, *)
(* the index range of the two trig tables, for every arm index, particle   *)
(* index, total_arms >= 1, spiral type and canvas size.                    *)
C25_AngleIndex ==
    /\ PointCalled =>
           LET base_angle_index == (args[1] * 32) \div args[3]
               t == (args[2] * 1000) \div 69
               optimized_t == (args[2] * 1000) \div 23
           IN  /\ point.library[3] =
                      (base_angle_index + spiral_progression(args[4], t)) % 32
               /\ point.library[3] \in 0 .. 31
               /\ point.service[3] =
                      (base_angle_index + optimized_progression(args[4], optimized_t)) % 32
               /\ point.service[3] \in 0 .. 31
    /\ (Generated \/ Called) =>
           \A k \in 1 .. Len(metadata) :
               /\ metadata[k][3] \in 0 .. 31
               /\ metadata[k][3] + 1 \in DOMAIN SIN_TABLE
               /\ metadata[k][3] + 1 \in DOMAIN COS_TABLE

C25_Witness ==
    /\ pc = "point"
    /\ args = << 7, MaxParticleIndex, 8, 0 >>
    /\ (args[1] * 32) \div args[3] + spiral_progression(0, (args[2] * 1000) \div 69) >= 32
    /\ point.library[3] \in 0 .. 31

(* C26: at every per-mille progress t below 1000 the progression of the    *)
(* tight spiral (type 0) is at least that of the classic spiral (type 2 or *)
(* any other value), which is at least that of the loose spiral (type 1),  *)
(* in the circuit module and in the service.                               *)
C26_ProgressionOrder ==
    /\ pc = "particles" =>
           /\ \A k \in 1 .. Len(metadata) : (metadata[k][2] * 1000) \div 69 < 1000
           /\ \A t \in 0 .. 999 :
                  /\ spiral_progression(0, t) >= spiral_progression(2, t)
                  /\ spiral_progression(2, t) = spiral_progression(3, t)
                  /\ spiral_progression(2, t) >= spiral_progression(1, t)
    /\ Served =>
           /\ \A k \in 1 .. Len(response.particles) :
                  (response.particles[k][4] * 1000) \div 23 < 1000
           /\ \A t \in 0 .. 999 :
                  /\ optimized_progression(0, t) >= optimized_progression(2, t)
                  /\ optimized_progression(2, t) = optimized_progression(3, t)
                  /\ optimized_progression(2, t) >= optimized_progression(1, t)

C26_Witness ==
    /\ pc = "particles"
    /\ Len(metadata) >= 69
    /\ metadata[69][2] = 68
    /\ spiral_progression(0, 985) = 15
    /\ spiral_progression(2, 985) = 7
    /\ spiral_progression(1, 985) = 3

(* C27: whenever the cosine (sine) table entry at the angle index of a     *)
(* generated particle is negative, the particle's x (y) is at most half    *)
(* the canvas size: the particles lie in all four quadrants around the     *)
(* centre.                                                                 *)
C27_SignedTrigValue ==
    Generated =>
        \A k \in 1 .. Len(positions) :
            /\ COS_TABLE[metadata[k][3] + 1] < 0 =>
                   positions[k][1] <= canvas_size \div 2
            /\ SIN_TABLE[metadata[k][3] + 1] < 0 =>
                   positions[k][2] <= canvas_size \div 2

(* C28: entry i of generate_spiral_particles, for every i below num_arms   *)
(* times 69, has arm_index = i div 69, particle_index = i mod 69 and the   *)
(* position calculate_spiral_point returns for them; and row i of the      *)
(* particle region holds entry i.                                          *)
C28_ArmMajorOrder ==
    /\ pc = "particles" =>
           /\ Len(positions) = config[2] * 69
           /\ Len(metadata) = config[2] * 69
           /\ \A i \in 0 .. config[2] * 69 - 1 :
                  LET arm_index == i \div 69
                      particle_index == i % 69
                      pt == calculate_spiral_point(arm_index, particle_index,
                                                   config[2], config[1], canvas_size)
                  IN  /\ metadata[i + 1][1] = arm_index
                      /\ metadata[i + 1][2] = particle_index
                      /\ metadata[i + 1][3] = pt[3]
                      /\ positions[i + 1] = << pt[1], pt[2] >>
    /\ (Synthesized /\ layout \in { "particles", "full" } /\ replaced = "none") =>
           \A i \in 0 .. ROW_LIMIT - 1 :
               /\ regions[3].cells[<< 11, i >>] = positions[i + 1][1]
               /\ regions[3].cells[<< 12, i >>] = positions[i + 1][2]
               /\ regions[3].cells[<< 13, i >>] = i \div 69
               /\ regions[3].cells[<< 14, i >>] = i % 69

C28_Witness ==
    /\ pc = "synthesized"
    /\ layout = "full"
    /\ replaced = "none"
    /\ config[2] = 8
    /\ metadata[70] = << 1, 0, 4 >>
    /\ metadata[552][1] = 7
    /\ metadata[552][2] = 68
    /\ regions[3].cells[<< 14, ROW_LIMIT - 1 >>] = ROW_LIMIT - 1

(* C29: synthesize assigns, and enables selector_particle on, as many      *)
(* particle rows as the smallest of the number of positions, the number of *)
(* metadata entries and 50, and as many triangle rows as the smallest of   *)
(* the number of vertices, the number of triangle metadata entries and 50; *)
(* with an empty metadata list it assigns no row, and the witness is still *)
(* accepted.                                                               *)
C29_RowCount ==
    /\ Synthesized =>
           LET particle_rows == min(min(Len(circuit.particle_positions),
                                        Len(circuit.particle_metadata)), 50)
               triangle_rows == min(min(Len(circuit.triangle_vertices),
                                        Len(circuit.triangle_metadata)), 50)
           IN  /\ regions[3].selectors =
                      { << "selector_particle", i >> : i \in 0 .. particle_rows - 1 }
               /\ DOMAIN regions[3].cells = particle_columns \X (0 .. particle_rows - 1)
               /\ regions[4].selectors =
                      { << "selector_triangle", i >> : i \in 0 .. triangle_rows - 1 }
               /\ DOMAIN regions[4].cells = triangle_columns \X (0 .. triangle_rows - 1)
    /\ ( /\ pc = "verified"
         /\ layout \in { "triangles", "limited" }
         /\ per_arm = SIXTY_NINE
         /\ corrupted = "none"
         /\ ~forged ) => result = "Ok"

C29_Witness ==
    /\ pc = "verified"
    /\ layout = "triangles"
    /\ per_arm = SIXTY_NINE
    /\ corrupted = "none"
    /\ ~forged
    /\ Len(circuit.particle_positions) = 552
    /\ circuit.particle_metadata = << >>
    /\ regions[3] = empty_region
    /\ Cardinality(regions[4].selectors) = ROW_LIMIT
    /\ result = "Ok"

(* C30: synthesize enables selector_spiral on no row of any region, for    *)
(* any witness, so the trig_lookup gate is active nowhere; and a witness   *)
(* whose angle indexes were replaced by other values is accepted.          *)
C30_LookupNeverEnabled ==
    /\ Synthesized =>
           \A n \in 1 .. Len(regions) :
               \A enabled \in regions[n].selectors : enabled[1] # "selector_spiral"
    /\ (pc = "verified" /\ replaced = "metadata") =>
           /\ \E i \in 0 .. ROW_LIMIT - 1 :
                  regions[3].cells[<< 15, i >>] \notin 0 .. 31
           /\ result = "Ok"

C30_Witness ==
    /\ pc = "verified"
    /\ replaced = "metadata"
    /\ regions[3].cells[<< 15, 0 >>] = 1000004
    /\ << "selector_particle", 0 >> \in regions[3].selectors
    /\ << "selector_spiral", 0 >> \notin regions[3].selectors
    /\ result = "Ok"

====
